---- MODULE Spec2Model ----
(***************************************************************************)
(* A model of scripts/run_ptb.py, the runner for PTB snippets: it reads a  *)
(* PTB file, tokenizes it with shlex.split(..., comments=True), expands    *)
(* $NAME / ${NAME} references per token, and runs `sui client ptb`.        *)
(*                                                                         *)
(* A string is a sequence of one-character strings, so that tokenizing     *)
(* and expanding are computed character by character as the code does.     *)
(***************************************************************************)
EXTENDS Integers, Sequences, FiniteSets, TLC

\* ------------------------------------------------------------- characters

SP == " "
NL == "\n"
TAB == "\t"
CR == "\r"
HASH == "#"
DQ == "\""
SQ == "'"
BS == "\\"
DOLLAR == "$"
LBRACE == "{"
RBRACE == "}"

\* shlex's lexical classes in POSIX mode (shlex.split builds shlex(posix=True)).
whitespace == {SP, TAB, CR, NL}
\* comments=False, shlex.split's default: no character starts a comment.
no_commenters == {}
commenters == {HASH}
\* A lexer that knows the double quote only.
quotes_double_only == {DQ}
quotes == {SQ, DQ}
escape == {BS}
escapedquotes == {DQ}

\* \w of ENV_VAR_PATTERN, on ASCII.
WordChars ==
    {"a", "b", "c", "d", "e", "f", "g", "h", "i", "j", "k", "l", "m",
     "n", "o", "p", "q", "r", "s", "t", "u", "v", "w", "x", "y", "z",
     "A", "B", "C", "D", "E", "F", "G", "H", "I", "J", "K", "L", "M",
     "N", "O", "P", "Q", "R", "S", "T", "U", "V", "W", "X", "Y", "Z",
     "0", "1", "2", "3", "4", "5", "6", "7", "8", "9", "_"}

SeqsUpTo(A, n) == UNION {[1..k -> A] : k \in 0..n}

SetMin(S) == CHOOSE m \in S : \A x \in S : m <= x

\* ---------------------------------------------------------------- shlex

\* instream.readline() called at position i: the position after the line's end.
readline(s, i) ==
    LET nls == {j \in i..Len(s) : s[j] = NL}
    IN  IF nls = {} THEN Len(s) + 1 ELSE SetMin(nls) + 1

\* What read_token returns: the token (none: the eof value None), the stream
\* position and the lexer state it leaves behind, or the ValueError it raises.
Result(token, quoted, i, state) ==
    [error |-> "", token |-> token, none |-> (~quoted /\ token = <<>>),
     pos |-> i, state |-> state]

LexError(msg) ==
    [error |-> msg, token |-> <<>>, none |-> TRUE, pos |-> 0, state |-> "None"]

\* The end of the input met in state ' ' or 'a': the pending token is returned.
\* (lost_at_eof: a lexer that forgets the pending token there.)
lost_at_eof(token, quoted, i) == Result(<<>>, FALSE, i, "None")
emit_at_eof(token, quoted, i) == Result(token, quoted, i, "None")

\* shlex.read_token with posix = True, whitespace_split = True and no
\* punctuation_chars; state is ' ', 'a', a quote, the escape or None.
RECURSIVE read_token(_, _, _, _, _, _)
read_token(s, i, state, escapedstate, token, quoted) ==
    LET eof == i > Len(s)
        nextchar == IF eof THEN "" ELSE s[i]
    IN
    IF state = "None" THEN Result(<<>>, FALSE, i, "None")
    ELSE IF state = " " THEN
        IF eof THEN emit_at_eof(token, quoted, i)
        ELSE IF nextchar \in whitespace THEN
            IF token # <<>> \/ quoted
            THEN Result(token, quoted, i + 1, " ")
            ELSE read_token(s, i + 1, " ", escapedstate, token, quoted)
        ELSE IF nextchar \in commenters THEN
            read_token(s, readline(s, i + 1), " ", escapedstate, token, quoted)
        ELSE IF nextchar \in escape THEN
            read_token(s, i + 1, nextchar, "a", token, quoted)
        ELSE IF nextchar \in quotes THEN
            read_token(s, i + 1, nextchar, escapedstate, token, quoted)
        ELSE read_token(s, i + 1, "a", escapedstate, <<nextchar>>, quoted)
    ELSE IF state \in quotes THEN
        IF eof THEN LexError("No closing quotation")
        ELSE IF nextchar = state THEN
            read_token(s, i + 1, "a", escapedstate, token, TRUE)
        ELSE IF nextchar \in escape /\ state \in escapedquotes THEN
            read_token(s, i + 1, nextchar, state, token, TRUE)
        ELSE read_token(s, i + 1, state, escapedstate,
                        Append(token, nextchar), TRUE)
    ELSE IF state \in escape THEN
        IF eof THEN LexError("No escaped character")
        ELSE IF escapedstate \in quotes /\ nextchar # state
                /\ nextchar # escapedstate
        THEN read_token(s, i + 1, escapedstate, escapedstate,
                        token \o <<state, nextchar>>, quoted)
        ELSE read_token(s, i + 1, escapedstate, escapedstate,
                        Append(token, nextchar), quoted)
    ELSE \* state = 'a'
        IF eof THEN emit_at_eof(token, quoted, i)
        ELSE IF nextchar \in whitespace THEN
            IF token # <<>> \/ quoted
            THEN Result(token, quoted, i + 1, " ")
            ELSE read_token(s, i + 1, " ", escapedstate, token, quoted)
        ELSE IF nextchar \in commenters THEN
            IF token # <<>> \/ quoted
            THEN Result(token, quoted, readline(s, i + 1), " ")
            ELSE read_token(s, readline(s, i + 1), " ", escapedstate,
                            token, quoted)
        ELSE IF nextchar \in quotes THEN
            read_token(s, i + 1, nextchar, escapedstate, token, quoted)
        ELSE IF nextchar \in escape THEN
            read_token(s, i + 1, nextchar, "a", token, quoted)
        ELSE read_token(s, i + 1, "a", escapedstate,
                        Append(token, nextchar), quoted)

\* list(lex): read_token until it returns None.
RECURSIVE shlex_iter(_, _, _, _)
shlex_iter(s, i, state, out) ==
    LET r == read_token(s, i, state, " ", <<>>, FALSE)
    IN  IF r.error # "" THEN [error |-> r.error, tokens |-> <<>>]
        ELSE IF r.none THEN [error |-> "", tokens |-> out]
        ELSE shlex_iter(s, r.pos, r.state, Append(out, r.token))

\* shlex.split(s, comments=True)
shlex_split(s) == shlex_iter(s, 1, " ", <<>>)

\* ----------------------------------------------------------- expand_env

\* ENV_VAR_PATTERN = \$(\w+)|\$\{([^}]+)\} tried at position i of token t:
\* whether it matches, the name (group 1 or group 2) and the position after
\* the match. \w+ and [^}]+ are greedy; the first alternative is tried first.
ENV_VAR_PATTERN(t, i) ==
    LET n == Len(t)
        NoMatch == [found |-> FALSE, name |-> <<>>, end |-> i]
    IN
    IF i > n \/ t[i] # DOLLAR \/ i + 1 > n THEN NoMatch
    ELSE IF t[i + 1] \in WordChars THEN
        LET stops == {j \in (i + 1)..n : t[j] \notin WordChars}
            e == IF stops = {} THEN n + 1 ELSE SetMin(stops)
        IN  [found |-> TRUE, name |-> SubSeq(t, i + 1, e - 1), end |-> e]
    ELSE IF t[i + 1] = LBRACE THEN
        LET closes == {j \in (i + 2)..n : t[j] = RBRACE}
        IN  IF closes = {} \/ SetMin(closes) = i + 2 THEN NoMatch
            ELSE [found |-> TRUE,
                  name |-> SubSeq(t, i + 2, SetMin(closes) - 1),
                  end |-> SetMin(closes) + 1]
    ELSE NoMatch

RECURSIVE expand_env(_, _)

\* expand_env's inner replace(match): the value of the named variable, or
\* the SystemExit(1) it raises (missing) when the name is not in os.environ.
\* (replace_default_empty: os.environ.get(name, ""); replace_recursive: the
\* value expanded again.)
replace_default_empty(name, env) ==
    [missing |-> FALSE, value |-> IF name \in DOMAIN env THEN env[name] ELSE <<>>]
replace_recursive(name, env) ==
    IF name \notin DOMAIN env THEN [missing |-> TRUE, value |-> <<>>]
    ELSE LET r == expand_env(env[name], env)
         IN  [missing |-> r.missing # <<>>, value |-> r.value]
replace(name, env) ==
    IF name \notin DOMAIN env THEN [missing |-> TRUE, value |-> <<>>]
    ELSE [missing |-> FALSE, value |-> env[name]]

\* ENV_VAR_PATTERN.sub(replace, token) from position i on, out being the text
\* built so far: non-overlapping matches left to right, other text copied.
RECURSIVE pattern_sub(_, _, _, _)
pattern_sub(t, i, env, out) ==
    IF i > Len(t) THEN [missing |-> <<>>, value |-> out]
    ELSE LET m == ENV_VAR_PATTERN(t, i)
         IN  IF m.found
             THEN LET r == replace(m.name, env)
                  IN  IF r.missing
                      THEN [missing |-> <<m.name>>, value |-> <<>>]
                      ELSE pattern_sub(t, m.end, env, out \o r.value)
             ELSE pattern_sub(t, i + 1, env, Append(out, t[i]))

\* expand_env(token): missing is <<name>> when the run aborts on name.
expand_env(token, env) == pattern_sub(token, 1, env, <<>>)

\* ------------------------------------------------------------ parse_args

HelpFlags == {<<"-", "h">>, <<"-", "-", "h", "e", "l", "p">>}
Separator == <<"-", "-">>

\* An argument argparse takes for an option: it starts with '-' and is longer.
IsOptionLike(a) == Len(a) > 1 /\ a[1] = "-"

\* parser.parse_args() on the command line argv (without the program name):
\* exit >= 0 when argparse itself ends the process (2 on a usage error, 0
\* after -h), else the namespace. The required positional ptb_path takes the
\* first argument, with one '--' before or after it; nargs=REMAINDER takes
\* everything that follows, options and further '--' included.
parse_args(argv) ==
    LET Usage == [exit |-> 2, ptb_path |-> <<>>, extra |-> <<>>]
        Help  == [exit |-> 0, ptb_path |-> <<>>, extra |-> <<>>]
    IN
    IF argv = <<>> THEN Usage
    ELSE IF argv[1] = Separator THEN
        IF Len(argv) = 1 THEN Usage
        ELSE [exit |-> -1, ptb_path |-> argv[2],
              extra |-> SubSeq(argv, 3, Len(argv))]
    ELSE IF argv[1] \in HelpFlags THEN Help
    ELSE IF IsOptionLike(argv[1]) THEN Usage
    ELSE IF Len(argv) >= 2 /\ argv[2] = Separator
    THEN [exit |-> -1, ptb_path |-> argv[1],
          extra |-> SubSeq(argv, 3, Len(argv))]
    ELSE [exit |-> -1, ptb_path |-> argv[1],
          extra |-> SubSeq(argv, 2, Len(argv))]

\* ------------------------------------------------------------------ main

SuiClientPtb == << <<"s", "u", "i">>, <<"c", "l", "i", "e", "n", "t">>,
                   <<"p", "t", "b">> >>

\* cmd = ["sui", "client", "ptb", *args.extra, *tokens]
\* (build_cmd_tokens_first: the two splices swapped.)
build_cmd_tokens_first(extra, toks) == SuiClientPtb \o toks \o extra
build_cmd(extra, toks) == SuiClientPtb \o extra \o toks

\* `if not tokens`
\* (tokens_never_empty: the test left out.)
tokens_never_empty(toks) == FALSE
tokens_empty(toks) == toks = <<>>

\* The list comprehension's step: one expanded token is one element.
\* (append_resplit: the expanded text tokenized again.)
append_resplit(toks, value) == toks \o shlex_split(value).tokens
append_expanded(toks, value) == Append(toks, value)

\* What main returns for the child's returncode: subprocess.run(check=True)
\* raises CalledProcessError when it is not 0, and main returns exc.returncode.
\* (main_return_flattened: `return 1` on any failure of the child.)
main_return_flattened(returncode) == IF returncode # 0 THEN 1 ELSE 0
main_return(returncode) == IF returncode # 0 THEN returncode ELSE 0

\* The status the interpreter ends with on an exception nothing catches
\* (read_text's OSError, shlex's ValueError, subprocess.run's OSError).
\* (uncaught_swallowed: the exception caught and dropped.)
uncaught_swallowed(exc) == 0
uncaught_exception(exc) == 1

\* The process's exit status for raise SystemExit(code): 8 bits on POSIX.
ExitStatus(code) == code % 256

\* ----------------------------------------------------------------- bounds

MaxToolExit == 3
MaxExtra == 2
MaxScriptLen == 4
MaxTokLen == 5
MaxExpLen == 4

\* The exit codes the tool is let return (0..255 on POSIX) and the signals
\* that may end it (SIGKILL).
ToolExitCodes == 0..MaxToolExit \cup {255}
ToolSignals == {9}

VARIABLES
    argv,        \* the command line after the program name
    file,        \* the file at the script path: [exists, text]
    environ,     \* os.environ: a function from names to values
    pc,          \* the stage main is in
    args,        \* parse_args's namespace: [ptb_path, extra]
    ptb_source,  \* the script text read
    split,       \* shlex.split's tokens
    tokens,      \* the expanded tokens built so far
    cmd,         \* the argument vector handed to subprocess.run
    invocations, \* how many times subprocess.run was called
    child,       \* what became of the child: [kind, code]
    exit_code,   \* the wrapper's exit status, -1 while it runs
    err          \* what went to stderr: [kind, name]

vars == <<argv, file, environ, pc, args, ptb_source, split, tokens, cmd,
          invocations, child, exit_code, err>>

NoErr == [kind |-> "", name |-> <<>>]
NoChild == [kind |-> "none", code |-> 0]
NoArgs == [ptb_path |-> <<>>, extra |-> <<>>]

\* The state before main runs, for a command line, a file and an environment.
InitWith(argvs, files, envs) ==
    /\ argv \in argvs
    /\ file \in files
    /\ environ \in envs
    /\ pc = "Idle"
    /\ args = NoArgs
    /\ ptb_source = <<>>
    /\ split = <<>>
    /\ tokens = <<>>
    /\ cmd = <<>>
    /\ invocations = 0
    /\ child = NoChild
    /\ exit_code = -1
    /\ err = NoErr

Terminate(code, e) ==
    /\ pc' = "Terminated"
    /\ exit_code' = ExitStatus(code)
    /\ err' = e

\* args = parse_args(): argparse ends the process itself on -h or bad usage.
ParseArgsExit ==
    /\ pc = "Idle"
    /\ parse_args(argv).exit >= 0
    /\ Terminate(parse_args(argv).exit,
                 [kind |-> IF parse_args(argv).exit = 0 THEN "Help" ELSE "Usage",
                  name |-> <<>>])
    /\ UNCHANGED <<argv, file, environ, args, ptb_source, split, tokens, cmd,
                   invocations, child>>

ParseArgs ==
    /\ pc = "Idle"
    /\ parse_args(argv).exit < 0
    /\ args' = [ptb_path |-> parse_args(argv).ptb_path,
                extra |-> parse_args(argv).extra]
    /\ pc' = "Reading"
    /\ UNCHANGED <<argv, file, environ, ptb_source, split, tokens, cmd,
                   invocations, child, exit_code, err>>

\* ptb_source = args.ptb_path.read_text()
ReadText ==
    /\ pc = "Reading"
    /\ file.exists
    /\ ptb_source' = file.text
    /\ pc' = "Tokenizing"
    /\ UNCHANGED <<argv, file, environ, args, split, tokens, cmd, invocations,
                   child, exit_code, err>>

ReadTextFails ==
    /\ pc = "Reading"
    /\ ~file.exists
    /\ Terminate(uncaught_exception("OSError"),
                 [kind |-> "FileAccess", name |-> <<>>])
    /\ UNCHANGED <<argv, file, environ, args, ptb_source, split, tokens, cmd,
                   invocations, child>>

\* shlex.split(ptb_source, comments=True), evaluated in full before the
\* comprehension expands its first token.
Tokenize ==
    /\ pc = "Tokenizing"
    /\ shlex_split(ptb_source).error = ""
    /\ split' = shlex_split(ptb_source).tokens
    /\ pc' = "Expanding"
    /\ UNCHANGED <<argv, file, environ, args, ptb_source, tokens, cmd,
                   invocations, child, exit_code, err>>

TokenizeFails ==
    /\ pc = "Tokenizing"
    /\ shlex_split(ptb_source).error # ""
    /\ Terminate(uncaught_exception("ValueError"),
                 [kind |-> "Tokenization", name |-> <<>>])
    /\ UNCHANGED <<argv, file, environ, args, ptb_source, split, tokens, cmd,
                   invocations, child>>

\* [expand_env(tok) for tok in ...]: the next token, in script order.
ExpandToken ==
    /\ pc = "Expanding"
    /\ Len(tokens) < Len(split)
    /\ LET r == expand_env(split[Len(tokens) + 1], environ)
       IN  /\ r.missing = <<>>
           /\ tokens' = append_expanded(tokens, r.value)
    /\ UNCHANGED <<argv, file, environ, pc, args, ptb_source, split, cmd,
                   invocations, child, exit_code, err>>

\* replace raises SystemExit(1) on the first name that is not set.
ExpandTokenFails ==
    /\ pc = "Expanding"
    /\ Len(tokens) < Len(split)
    /\ LET r == expand_env(split[Len(tokens) + 1], environ)
       IN  /\ r.missing # <<>>
           /\ Terminate(1, [kind |-> "MissingVariable", name |-> r.missing[1]])
    /\ UNCHANGED <<argv, file, environ, args, ptb_source, split, tokens, cmd,
                   invocations, child>>

\* if not tokens: ... return 1
EmptyScript ==
    /\ pc = "Expanding"
    /\ Len(tokens) >= Len(split)
    /\ tokens_empty(tokens)
    /\ Terminate(1, [kind |-> "EmptyScript", name |-> <<>>])
    /\ UNCHANGED <<argv, file, environ, args, ptb_source, split, tokens, cmd,
                   invocations, child>>

\* cmd = [...]; print("Executing:", shlex.join(cmd))
BuildCmd ==
    /\ pc = "Expanding"
    /\ Len(tokens) >= Len(split)
    /\ ~tokens_empty(tokens)
    /\ cmd' = build_cmd(args.extra, tokens)
    /\ pc' = "Invoking"
    /\ UNCHANGED <<argv, file, environ, args, ptb_source, split, tokens,
                   invocations, child, exit_code, err>>

\* subprocess.run(cmd, check=True): the tool runs and exits with code n.
RunToolExits ==
    /\ pc = "Invoking"
    /\ \E n \in ToolExitCodes :
        /\ child' = [kind |-> "exited", code |-> n]
        /\ Terminate(main_return(n), NoErr)
    /\ invocations' = invocations + 1
    /\ UNCHANGED <<argv, file, environ, args, ptb_source, split, tokens, cmd>>

\* The tool runs and a signal ends it: returncode is the negated signal.
RunToolSignaled ==
    /\ pc = "Invoking"
    /\ \E sig \in ToolSignals :
        /\ child' = [kind |-> "signaled", code |-> sig]
        /\ Terminate(main_return(0 - sig), NoErr)
    /\ invocations' = invocations + 1
    /\ UNCHANGED <<argv, file, environ, args, ptb_source, split, tokens, cmd>>

\* `sui` cannot be found or started: subprocess.run raises an OSError that
\* main's except clause (CalledProcessError only) does not catch.
RunToolNotStarted ==
    /\ pc = "Invoking"
    /\ child' = [kind |-> "notstarted", code |-> 0]
    /\ Terminate(uncaught_exception("OSError"),
                 [kind |-> "Launch", name |-> <<>>])
    /\ invocations' = invocations + 1
    /\ UNCHANGED <<argv, file, environ, args, ptb_source, split, tokens, cmd>>

Next ==
    \/ ParseArgsExit
    \/ ParseArgs
    \/ ReadText
    \/ ReadTextFails
    \/ Tokenize
    \/ TokenizeFails
    \/ ExpandToken
    \/ ExpandTokenFails
    \/ EmptyScript
    \/ BuildCmd
    \/ RunToolExits
    \/ RunToolSignaled
    \/ RunToolNotStarted

\* ----------------------------------------------------------------- inputs

ScriptPath == <<"f">>
DryRun == <<"-", "-", "d", "r", "y", "-", "r", "u", "n">>
VarA == <<DOLLAR, "a">>
NameA == <<"a">>
NameB == <<"b">>

File(text) == [exists |-> TRUE, text |-> text]
Missing == [exists |-> FALSE, text |-> <<>>]
NoEnv == <<>>

\* `"hello world" foo`
HelloWorld ==
    <<DQ, "h", "e", "l", "l", "o", SP, "w", "o", "r", "l", "d", DQ, SP,
      "f", "o", "o">>

\* `# comment\nmove $SRC $DST  # trailing` with SRC=a.txt and DST=b.txt
MoveScript ==
    <<HASH, SP, "c", "o", "m", "m", "e", "n", "t", NL, "m", "o", "v", "e", SP,
      DOLLAR, "S", "R", "C", SP, DOLLAR, "D", "S", "T", SP, SP, HASH, SP,
      "t", "r", "a", "i", "l", "i", "n", "g">>
MoveEnv ==
    (<<"S", "R", "C">> :> <<"a", ".", "t", "x", "t">>)
    @@ (<<"D", "S", "T">> :> <<"b", ".", "t", "x", "t">>)

\* A few whole runs every specification starts from: each way main can end.
BaselineInit ==
    InitWith({<<>>, <<<<"-", "h">>>>, <<ScriptPath>>,
              <<ScriptPath, Separator, DryRun>>},
             {Missing, File(<<>>), File(<<DQ>>), File(MoveScript),
              File(HelloWorld), File(<<DOLLAR, "a", SP, DOLLAR, "b">>)},
             {NoEnv, MoveEnv, NameA :> <<"x">>})

\* Whole runs: every command line, small scripts, the tool's outcomes.
ExtraWords == {DryRun, VarA, Separator}
Extras == SeqsUpTo(ExtraWords, MaxExtra)
ArgvAll ==
    {<<>>, <<<<"-", "h">>>>}
    \cup {<<ScriptPath>> \o e : e \in Extras}
    \cup {<<ScriptPath, Separator>> \o e : e \in Extras}
ScriptAlphabet == {"a", SP, HASH, DOLLAR}
Scripts == {File(t) : t \in SeqsUpTo(ScriptAlphabet, MaxScriptLen)}
Init ==
    \/ BaselineInit
    \/ InitWith(ArgvAll, Scripts \cup {Missing}, {NameA :> <<"b", SP, "b">>})

Spec == Init /\ [][Next]_vars

\* The tokenizer on every short text over shlex's special characters.
TokAlphabet == {"a", SP, NL, HASH, DQ, SQ, BS}
TokScripts == {File(t) : t \in SeqsUpTo(TokAlphabet, MaxTokLen)}
InitTokenize ==
    \/ BaselineInit
    \/ InitWith({<<ScriptPath>>}, TokScripts, {NoEnv})

SpecTokenize == InitTokenize /\ [][Next]_vars

\* The expander on every short text over the reference syntax, in
\* environments whose values hold whitespace, quotes, '#', '$' or nothing.
ExpAlphabet == {"a", "b", DOLLAR, LBRACE, RBRACE, SP}
ExpScripts == {File(t) : t \in SeqsUpTo(ExpAlphabet, MaxExpLen)}
EnvValues == {<<>>, <<"b", SP, "b">>, <<DQ, "b">>, <<HASH>>, <<DOLLAR, "b">>}
ExpEnvs ==
    {NoEnv}
    \cup {NameA :> v : v \in EnvValues}
    \cup {(NameA :> <<DOLLAR, "b">>) @@ (NameB :> <<"a", SP>>)}
InitExpand ==
    \/ BaselineInit
    \/ InitWith({<<ScriptPath, Separator, VarA>>}, ExpScripts, ExpEnvs)

SpecExpand == InitExpand /\ [][Next]_vars

\* ------------------------------------------------- notions the claims use

Blank == {" ", "\t", "\r", "\n"}
QuoteChars == {"'", "\""}

\* The run's command line names a script, so main gets to read it.
NamesScript == parse_args(argv).exit < 0

\* Positions j..i of s lie on one line.
SameLine(s, j, i) == \A k \in j..i : s[k] # "\n"

\* Position i of s is inside a comment: a '#' that only blanks precede on its
\* line starts it, and it runs to the end of the line.
InComment(s, i) ==
    \E j \in 1..i :
        /\ s[j] = "#"
        /\ SameLine(s, j, i)
        /\ \A k \in 1..(j - 1) : SameLine(s, k, j) => s[k] \in Blank

OnlyCommentsAndWhitespace(s) ==
    \A i \in 1..Len(s) : s[i] \in Blank \/ InComment(s, i)

\* The references of token t from position i on, as a left-to-right scan
\* finds them: where each starts and ends and the name it gives.
RECURSIVE References(_, _)
References(t, i) ==
    IF i > Len(t) THEN <<>>
    ELSE LET m == ENV_VAR_PATTERN(t, i)
         IN  IF m.found
             THEN <<[start |-> i, end |-> m.end, name |-> m.name]>>
                  \o References(t, m.end)
             ELSE References(t, i + 1)

ReferencedNames(t) ==
    {References(t, 1)[k].name : k \in 1..Len(References(t, 1))}

\* Token t with each reference of refs (from the k-th on) replaced by its
\* variable's value as it stands, and the text from position i on between
\* the references kept.
RECURSIVE Substituted(_, _, _, _, _)
Substituted(t, refs, k, i, env) ==
    IF k > Len(refs) THEN SubSeq(t, i, Len(t))
    ELSE SubSeq(t, i, refs[k].start - 1) \o env[refs[k].name]
         \o Substituted(t, refs, k + 1, refs[k].end, env)

\* The tokens of the script in the file, when it tokenizes.
ScriptTokens == shlex_split(file.text).tokens
Tokenizes == file.exists /\ shlex_split(file.text).error = ""

\* The names some token of the script refers to that the environment lacks.
UnsetReferenced ==
    UNION {ReferencedNames(ScriptTokens[k]) \ DOMAIN environ :
           k \in 1..Len(ScriptTokens)}

\* ----------------------------------------------------------------- claims

\* C1: a script of only comments and whitespace (the empty file too) gives
\* zero tokens, the run ends with exit code 1 on the empty-script condition,
\* and subprocess.run is never called.
C1_BlankScriptFailsWithoutInvocation ==
    (NamesScript /\ file.exists /\ OnlyCommentsAndWhitespace(file.text)) =>
        /\ invocations = 0
        /\ pc # "Invoking"
        /\ split = <<>> /\ tokens = <<>> /\ cmd = <<>>
        /\ pc = "Terminated" =>
            (exit_code = 1 /\ err.kind = "EmptyScript")

C1_Witness ==
    /\ pc = "Terminated" /\ err.kind = "EmptyScript" /\ exit_code = 1
    /\ \E i, j \in 1..Len(ptb_source) :
        i < j /\ ptb_source[i] = "#" /\ ptb_source[j] \in QuoteChars

\* C2: when some token refers to a variable the environment lacks, the run
\* aborts on a missing-variable error naming an unset referenced variable,
\* with exit code 1, before the expansion is complete and without ever
\* calling subprocess.run, wherever the unresolved reference stands.
C2_UnsetReferenceAbortsBeforeInvocation ==
    (NamesScript /\ Tokenizes /\ UnsetReferenced # {}) =>
        /\ invocations = 0
        /\ pc # "Invoking"
        /\ cmd = <<>>
        /\ pc = "Expanding" => Len(tokens) < Len(split)
        /\ pc = "Terminated" =>
            /\ exit_code = 1
            /\ err.kind = "MissingVariable"
            /\ err.name \in UnsetReferenced

C2_Witness ==
    /\ pc = "Terminated" /\ err.kind = "MissingVariable"
    /\ Len(tokens) >= 1
    /\ tokens[1] # split[1]
    /\ invocations = 0

\* The pass-through arguments supplied on the command line: what follows the
\* script path, less the separator that directly follows it.
PassThroughSupplied ==
    IF Len(argv) >= 2 /\ argv[2] = <<"-", "-">>
    THEN SubSeq(argv, 3, Len(argv))
    ELSE SubSeq(argv, 2, Len(argv))

\* C3: whenever subprocess.run is called, its argument vector is sui, client,
\* ptb, then the pass-through arguments as supplied (in order, unexpanded),
\* then the expanded script tokens in script order.
C3_ArgumentVector ==
    (pc = "Invoking" \/ invocations > 0) =>
        cmd = << <<"s", "u", "i">>, <<"c", "l", "i", "e", "n", "t">>,
                 <<"p", "t", "b">> >>
              \o PassThroughSupplied
              \o [k \in 1..Len(ScriptTokens) |->
                    expand_env(ScriptTokens[k], environ).value]

C3_Witness ==
    /\ invocations = 1
    /\ Len(tokens) = 2
    /\ tokens[1] # split[1]
    /\ Len(args.extra) = 2
    /\ args.extra[1] = <<"$", "a">>
    /\ <<"a">> \in DOMAIN environ
    /\ cmd[4] = <<"$", "a">>

\* C4: when the tool was started and exited with a code, the wrapper's exit
\* code is that code, whatever it is.
C4_ExitCodeVerbatim ==
    child.kind = "exited" => (pc = "Terminated" /\ exit_code = child.code)

C4_Witness ==
    child.kind = "exited" /\ child.code = 3 /\ exit_code = 3

\* C5 as stated: when the tool cannot be found or started, the wrapper's
\* exit code is neither 0 nor the 1 of the empty-script and missing-variable
\* failures.
C5_LaunchFailureCodeDistinctFromOne ==
    child.kind = "notstarted" => (exit_code # 0 /\ exit_code # 1)

\* C5 amended: when the tool cannot be found or started, the run ends on the
\* launch error with exit code 1: not the 0 of a clean run, but the same
\* code as the empty-script and missing-variable failures.
C5_LaunchFailureExitsOne ==
    child.kind = "notstarted" =>
        (pc = "Terminated" /\ exit_code = 1 /\ err.kind = "Launch")

C5_Witness ==
    child.kind = "notstarted" /\ pc = "Terminated" /\ invocations = 1

IsPlainToken(t) ==
    /\ t # <<>>
    /\ \A i \in 1..Len(t) : t[i] \notin Blank \cup QuoteChars \cup {"\\", "#"}

Retokenizes(t) == shlex_split(t) = [error |-> "", tokens |-> <<t>>]

\* C6 as stated: every token the tokenizer produced, tokenized again, gives
\* exactly that one token.
C6_RetokenizingAnyToken ==
    \A k \in 1..Len(split) : Retokenizes(split[k])

\* C6 amended: every token the tokenizer produced that is not empty and
\* holds no whitespace, quote, backslash or '#', tokenized again, gives
\* exactly that one token.
C6_RetokenizingPlainToken ==
    \A k \in 1..Len(split) : IsPlainToken(split[k]) => Retokenizes(split[k])

C6_Witness ==
    /\ Len(split) = 2
    /\ split[1] = <<"a", "a">>
    /\ ~IsPlainToken(split[2])

\* C7: when the expansion completes, there are as many expanded tokens as
\* tokenized ones and the i-th is the expansion of the i-th, whatever the
\* substituted values hold; while it runs, so far as it got.
C7_ExpansionIsTokenWise ==
    /\ pc = "Expanding" =>
        /\ Len(tokens) <= Len(split)
        /\ \A i \in 1..Len(tokens) :
            tokens[i] = expand_env(split[i], environ).value
    /\ pc = "Invoking" =>
        /\ Len(tokens) = Len(ScriptTokens)
        /\ \A i \in 1..Len(tokens) :
            tokens[i] = expand_env(ScriptTokens[i], environ).value

C7_Witness ==
    /\ pc = "Invoking"
    /\ Len(tokens) = 2
    /\ split[1] = <<"$", "a">>
    /\ tokens[1] = <<"b", " ", "b">>

\* s holds exactly one quoted substring, from the quote at i to the same
\* quote at j, no backslash, and no '#' outside the quotes.
OneQuoted(s, i, j) ==
    /\ i < j
    /\ s[i] \in QuoteChars
    /\ s[j] = s[i]
    /\ \A k \in (i + 1)..(j - 1) : s[k] # s[i]
    /\ \A k \in (1..(i - 1)) \cup ((j + 1)..Len(s)) :
        s[k] \notin QuoteChars \cup {"#"}
    /\ \A k \in 1..Len(s) : s[k] # "\\"

\* The words of a text without quotes, backslashes and '#': its maximal
\* runs of non-blank characters.
RECURSIVE Words(_)
Words(w) ==
    IF w = <<>> THEN <<>>
    ELSE IF w[1] \in Blank THEN Words(Tail(w))
    ELSE LET stops == {k \in 1..Len(w) : w[k] \in Blank}
             e == IF stops = {} THEN Len(w) + 1 ELSE SetMin(stops)
         IN  <<SubSeq(w, 1, e - 1)>> \o Words(SubSeq(w, e, Len(w)))

SetMax(S) == CHOOSE m \in S : \A x \in S : m >= x

\* The last blank before position i of s (0 if none) and the first after j.
BlankBefore(s, i) ==
    LET b == {k \in 1..(i - 1) : s[k] \in Blank}
    IN  IF b = {} THEN 0 ELSE SetMax(b)
BlankAfter(s, j) ==
    LET b == {k \in (j + 1)..Len(s) : s[k] \in Blank}
    IN  IF b = {} THEN Len(s) + 1 ELSE SetMin(b)

HelloWorldTokens ==
    << <<"h", "e", "l", "l", "o", " ", "w", "o", "r", "l", "d">>,
       <<"f", "o", "o">> >>

\* C8 as stated: a quoted substring is a token of its own, the text between
\* the quotes; the unquoted text around it splits on whitespace.
C8_QuotedSubstringIsOwnToken ==
    pc = "Expanding" =>
        \A i, j \in 1..Len(ptb_source) :
            OneQuoted(ptb_source, i, j) =>
                split = Words(SubSeq(ptb_source, 1, i - 1))
                        \o <<SubSeq(ptb_source, i + 1, j - 1)>>
                        \o Words(SubSeq(ptb_source, j + 1, Len(ptb_source)))

\* C8 amended: `"hello world" foo` gives exactly hello world, foo; a quoted
\* substring gives its text, quotes removed and whitespace kept, to one
\* token, which also takes the unquoted text that touches the quotes: the
\* token is the quoted text alone when blanks or the script's ends delimit
\* the quotes. The unquoted text elsewhere splits on whitespace.
C8_QuotedSubstringJoinsItsToken ==
    pc = "Expanding" =>
        /\ ptb_source = HelloWorld => split = HelloWorldTokens
        /\ \A i, j \in 1..Len(ptb_source) :
            OneQuoted(ptb_source, i, j) =>
                LET p == BlankBefore(ptb_source, i)
                    q == BlankAfter(ptb_source, j)
                IN  split = Words(SubSeq(ptb_source, 1, p))
                            \o <<SubSeq(ptb_source, p + 1, i - 1)
                                 \o SubSeq(ptb_source, i + 1, j - 1)
                                 \o SubSeq(ptb_source, j + 1, q - 1)>>
                            \o Words(SubSeq(ptb_source, q, Len(ptb_source)))

C8_Witness ==
    /\ pc = "Expanding"
    /\ ptb_source = HelloWorld
    /\ split = HelloWorldTokens

Stages == <<"Idle", "Reading", "Tokenizing", "Expanding", "Invoking",
            "Terminated">>
StageNo(p) == CHOOSE n \in 1..Len(Stages) : Stages[n] = p

\* C9: a step goes to the next stage (the expansion staying in its stage
\* token by token) or aborts to Terminated; subprocess.run is called at most
\* once, from Invoking, with every token of the script expanded and at
\* least one token; a stage that fails ends the run with a non-zero exit
\* code and no invocation; nothing happens after Terminated.
C9_StageStep ==
    /\ pc # "Terminated"
    /\ \/ pc' = "Terminated"
       \/ StageNo(pc') = StageNo(pc) + 1
       \/ pc = "Expanding" /\ pc' = "Expanding" /\ Len(tokens') = Len(tokens) + 1
    /\ invocations' \in {invocations, invocations + 1}
    /\ invocations' <= 1
    /\ invocations' # invocations =>
        /\ pc = "Invoking" /\ pc' = "Terminated"
        /\ Tokenizes
        /\ tokens # <<>>
        /\ Len(tokens) = Len(ScriptTokens)
        /\ ptb_source = file.text
    /\ (pc' = "Terminated" /\ pc # "Invoking" /\ err'.kind # "Help") =>
        (exit_code' # 0 /\ invocations' = 0 /\ err'.kind # "")
    /\ pc' # "Terminated" => (exit_code' = -1 /\ err'.kind = "")

C9_StagesInOrder == [][C9_StageStep]_vars

C9_Witness ==
    /\ pc = "Terminated"
    /\ invocations = 1
    /\ child.kind = "exited"
    /\ Len(tokens) = 3

\* C10: each expanded token is its tokenized text with every reference
\* replaced by the variable's value as it stands (a '$' in the value is not a
\* reference) and the rest unchanged; the expansion fails only on a name the
\* token itself refers to and the environment lacks.
C10_VerbatimSubstitution ==
    /\ \A i \in 1..Len(tokens) :
        i <= Len(split) =>
            tokens[i] = Substituted(split[i], References(split[i], 1), 1, 1,
                                    environ)
    /\ err.kind = "MissingVariable" =>
        /\ err.name \notin DOMAIN environ
        /\ err.name \in ReferencedNames(split[Len(tokens) + 1])
    /\ (pc = "Expanding" /\ Len(tokens) < Len(split)
        /\ ReferencedNames(split[Len(tokens) + 1]) \subseteq DOMAIN environ) =>
            expand_env(split[Len(tokens) + 1], environ).missing = <<>>

C10_Witness ==
    /\ pc = "Invoking"
    /\ split = << <<"a", "$", "a">> >>
    /\ tokens = << <<"a", "$", "b">> >>
    /\ <<"b">> \notin DOMAIN environ

====
